---- MODULE Spec2Model ----
(***************************************************************************)
(* A model of pezcore/obsidian: BIP32 extended key nodes                   *)
(* (src/deterministic.py) and BIP39 mnemonics (src/mnemonic.py).           *)
(*                                                                         *)
(* Scale.  The curve is a cyclic group of order N; a point is modelled by  *)
(* its discrete logarithm d (the point d*G), the point at infinity by 0.   *)
(* N is small, and the hash functions are small mixing functions whose     *)
(* family is indexed by the variable salt, chosen in Init.  Byte strings   *)
(* are sequences over 0..255 with the lengths of the source (33-byte key   *)
(* data, 32-byte chain codes, 78-byte serializations).  A child index, a   *)
(* Python int that reaches 2^32, is kept exactly as two 16-bit limbs       *)
(* <<hi, lo>> standing for hi * 2^16 + lo.                                  *)
(***************************************************************************)
EXTENDS Integers, Sequences, FiniteSets, TLC

VARIABLES
    salt,       \* which hash function of the family the run uses
    node,       \* the node the caller holds, or None
    op,         \* the last operation: "init", "from_entropy", "ckd", ...
    parent,     \* the node the last operation was applied to
    arg,        \* the input of the last operation
    res,        \* what the last operation returned or raised
    wl,         \* the word list in use (its number)
    mnemonic,   \* the Mnemonic the caller holds (a tuple of words)
    ent,        \* the entropy given to the last from_entropy
    edits,      \* number of words replaced or dropped by hand since
    mop,        \* the last mnemonic operation
    mres        \* what the last mnemonic operation returned or raised

treeVars == <<node, op, parent, arg, res>>
mnVars == <<wl, mnemonic, ent, edits, mop, mres>>
vars == <<salt, node, op, parent, arg, res, wl, mnemonic, ent, edits, mop, mres>>

---------------------------------------------------------------------------
(* Bounds of the model.                                                    *)

N == 5              \* order of the (scaled-down) curve group
ILSpace == 8        \* HMAC left halves range over 0..ILSpace-1 (> N)
CSpace == 2         \* number of distinct chain codes HMAC produces
MaxSalt == 1        \* hash functions 0..MaxSalt
MaxSeed == 1        \* seeds 0..MaxSeed
MaxDepth == 2       \* Spec stops deriving below this depth
MaxPathLen == 2     \* components of a derivation path
DeepCap == 256      \* SpecDeep stops deriving below this depth
MaxEdits == 1       \* hand edits of a generated mnemonic
MaxWordList == 1    \* word lists 0..MaxWordList
MaxPattern == 1     \* entropy byte patterns 0..MaxPattern

---------------------------------------------------------------------------
(* Python values.                                                          *)

None == [kind |-> "none"]
Error(e) == [kind |-> "error", err |-> e]
IsError(r) == r.kind = "error"
IsNode(r) == r.kind \in {"priv", "pub"}

Zeros(n) == [j \in 1..n |-> 0]

\* int.from_bytes(b, 'big').  The model's integers are below 2^31, so the
\* value is that of the last four bytes; bytes before them must be zero
\* (a larger value is outside the model and is never computed).
ByteAt(b, j) == IF j >= 1 THEN b[j] ELSE 0
FromBytes(b) ==
    LET n == Len(b)
    IN  IF \E j \in 1..(n - 4) : b[j] # 0 THEN 256 * 256 * 256 * 256
        ELSE ((ByteAt(b, n - 3) * 256 + ByteAt(b, n - 2)) * 256
              + ByteAt(b, n - 1)) * 256 + ByteAt(b, n)

\* x.to_bytes(n, 'big') raises OverflowError unless 0 <= x < 256^n
FitsBytes(x, n) == x >= 0 /\ (n >= 4 \/ x < 256 ^ n)

\* x.to_bytes(n, 'big'): byte j is (x div 256^(n-j)) mod 256, which is 0
\* above the fourth byte from the right for every x below 2^31
ToBytes(x, n) ==
    [j \in 1..n |-> IF n - j >= 4 THEN 0 ELSE (x \div (256 ^ (n - j))) % 256]

\* Python's s[lo:hi] on a sequence of length n (0-based, negative from the end)
PyIdx(n, i) ==
    IF i < 0 THEN (IF n + i < 0 THEN 0 ELSE n + i)
    ELSE (IF i > n THEN n ELSE i)
PySlice(s, lo, hi) == SubSeq(s, PyIdx(Len(s), lo) + 1, PyIdx(Len(s), hi))
PyTail(s, lo) == SubSeq(s, PyIdx(Len(s), lo) + 1, Len(s))

\* A child index as two 16-bit limbs: <<hi, lo>> is hi * 2^16 + lo.
Idx(hi, lo) == <<hi, lo>>
\* i >= 0x80000000
IsHardened(i) == i[1] >= 32768
\* i + 0x80000000
AddHardenedOffset(i) == <<i[1] + 32768, i[2]>>
\* i.to_bytes(4, 'big'), OverflowError when i >= 2^32
IndexFits(i) == i[1] < 65536
IndexToBytes(i) == ToBytes(i[1], 2) \o ToBytes(i[2], 2)
\* int.from_bytes(b, 'big') of a 4-byte (or shorter) slice
IndexFromBytes(b) ==
    LET n == Len(b)
    IN  IF n <= 2 THEN <<0, FromBytes(b)>>
        ELSE <<FromBytes(SubSeq(b, 1, n - 2)), FromBytes(SubSeq(b, n - 1, n))>>

---------------------------------------------------------------------------
(* Collaborators: hashes, the curve, the checksum-prefixed text codec.     *)

\* the mixing function behind every hash of the model
RECURSIVE WeightedSum(_, _, _)
WeightedSum(b, lo, hi) ==
    IF lo > hi THEN 0
    ELSE IF lo = hi THEN ((b[lo] + 7) * ((lo * lo + 3 * lo + 1) % 1009)) % 1009
    ELSE LET mid == (lo + hi) \div 2
         IN  (WeightedSum(b, lo, mid) + WeightedSum(b, mid + 1, hi)) % 1009
Mix(b, h) == (h * 131 + 17 * Len(b) + WeightedSum(b, 1, Len(b))) % 1009

\* hmac.new(key, msg, 'sha512').digest(): 64 bytes, IL then IR
HmacSha512(key, msg) ==
    LET h == Mix(key \o msg, salt)
    IN  Zeros(31) \o <<h % ILSpace>>
        \o [j \in 1..32 |-> (((h \div ILSpace) % CSpace) * 37 + j) % 256]

\* hash160(msg): 20 bytes
hash160(msg) ==
    LET h == Mix(msg, salt + 1)
    IN  [j \in 1..20 |-> (h * 11 + j) % 256]

\* the curve: G * k and point addition, on discrete logarithms
Infinity == 0
PointMul(k) == k % N
PointAdd(P, Q) == (P + Q) % N
\* bytes(K): the 33-byte compressed encoding, a parity byte then 32 bytes
PointBytes(K) == <<2 + (K % 2)>> \o ToBytes(K \div 2, 32)
\* Point.from_bytes(b)
PointFromBytes(b) ==
    IF Len(b) # 33 \/ b[1] \notin {2, 3} THEN Error("ValueError")
    ELSE IF \E j \in 2..29 : b[j] # 0 THEN Error("ValueError")
    ELSE LET K == 2 * FromBytes(SubSeq(b, 2, 33)) + (b[1] - 2)
         IN  IF K >= N THEN Error("ValueError") ELSE [kind |-> "point", K |-> K]

\* b58enc(payload, True) / b58dec(s, True): the text is the payload followed
\* by a 4-byte checksum; decoding verifies and strips it.
Checksum(payload) ==
    LET h == Mix(payload, salt + 2)
    IN  [j \in 1..4 |-> (h * 13 + j) % 256]
b58enc(payload) == payload \o Checksum(payload)
b58dec(s) ==
    IF Len(s) < 4 THEN Error("ChecksumMismatch")
    ELSE LET payload == SubSeq(s, 1, Len(s) - 4)
         IN  IF PyTail(s, -4) = Checksum(payload)
             THEN [kind |-> "bytes", b |-> payload]
             ELSE Error("ChecksumMismatch")

---------------------------------------------------------------------------
(* src/deterministic.py: extended keys and BIP32 nodes.                    *)

\* PrivBIP32Node.vbytes, PubBIP32Node.vbytes
PrivVbytes == <<4, 136, 173, 228>>
PubVbytes == <<4, 136, 178, 30>>

\* PubBIP32Node.__init__; kind is the class, kdat the scalar k of a
\* PrivBIP32Node or the point K of a PubBIP32Node
BIP32Node(kind, kdat, c, depth, parent_fingerprint, index) ==
    [kind |-> kind, kdat |-> kdat, c |-> c, depth |-> depth,
     parent_fingerprint |-> parent_fingerprint, index |-> index]

\* the property K: XPubKey.K, XPrivKey.K
K(self) == IF self.kind = "priv" THEN PointMul(self.kdat) ELSE self.kdat

\* the property keydat: XPubKey.keydat, XPrivKey.keydat
keydat(self) ==
    IF self.kind = "priv" THEN <<0>> \o ToBytes(self.kdat, 32)
    ELSE PointBytes(K(self))

\* the property id
id(self) == hash160(PointBytes(K(self)))

\* XPrivKey.from_entropy, called on PrivBIP32Node
BitcoinSeed == <<66, 105, 116, 99, 111, 105, 110, 32, 115, 101, 101, 100>>
XPrivKey_from_entropy(seed) ==
    LET I == HmacSha512(BitcoinSeed, seed)
        k == FromBytes(PySlice(I, 0, 32))
        c == PyTail(I, 32)
    IN  IF k = 0 \/ k >= N THEN Error("AssertionError")
        ELSE BIP32Node("priv", k, c, 0, Zeros(4), Idx(0, 0))

\* XPubKey.ckd without its assertion: a hardened index is derived like any
\* other (the bug C2 excludes)
XPubKey_ckd_unasserted(self, i) ==
    LET pl == PointBytes(K(self)) \o IndexToBytes(i)
        I == HmacSha512(self.c, pl)
    IN  [kind |-> "xpub",
         kdat |-> PointAdd(PointMul(FromBytes(PySlice(I, 0, 32))), K(self)),
         c |-> PyTail(I, -32)]

\* XPubKey.ckd: the child XPubKey (K, c)
XPubKey_ckd(self, i) ==
    IF IsHardened(i) THEN Error("AssertionError")
    ELSE LET pl == PointBytes(K(self)) \o IndexToBytes(i)
             I == HmacSha512(self.c, pl)
             IL == PySlice(I, 0, 32)
             IR == PyTail(I, -32)
             k == FromBytes(IL)
         IN  [kind |-> "xpub", kdat |-> PointAdd(PointMul(k), K(self)), c |-> IR]

\* XPrivKey.ckd hashing the private key data for every index, hardened or
\* not (the bug C1 excludes)
XPrivKey_ckd_keydat_always(self, i) ==
    IF ~IndexFits(i) THEN Error("OverflowError")
    ELSE LET I == HmacSha512(self.c, keydat(self) \o IndexToBytes(i))
         IN  [kind |-> "xpriv",
              kdat |-> (FromBytes(PySlice(I, 0, 32)) + self.kdat) % N,
              c |-> PyTail(I, -32)]

\* XPrivKey.ckd: the child XPrivKey (k, c)
XPrivKey_ckd(self, i) ==
    IF ~IndexFits(i) THEN Error("OverflowError")
    ELSE LET plbe == IF IsHardened(i) THEN keydat(self)
                     ELSE PointBytes(PointMul(self.kdat))
             I == HmacSha512(self.c, plbe \o IndexToBytes(i))
             IL == PySlice(I, 0, 32)
             IR == PyTail(I, -32)
             k == (FromBytes(IL) + self.kdat) % N
         IN  [kind |-> "xpriv", kdat |-> k, c |-> IR]

\* PubBIP32Node.ckd, inherited by PrivBIP32Node: super().ckd is
\* XPrivKey.ckd for a private node and XPubKey.ckd for a public one
ckd(self, i) ==
    LET xkey == IF self.kind = "priv" THEN XPrivKey_ckd(self, i)
                ELSE XPubKey_ckd(self, i)
    IN  IF IsError(xkey) THEN xkey
        ELSE BIP32Node(self.kind, xkey.kdat, xkey.c, self.depth + 1,
                       PySlice(id(self), 0, 4), i)

\* PrivBIP32Node.to_pub
to_pub(self) ==
    BIP32Node("pub", K(self), self.c, self.depth,
              self.parent_fingerprint, self.index)

\* PubBIP32Node.__bytes__
NodeBytes(self) ==
    IF ~FitsBytes(self.depth, 1) \/ ~IndexFits(self.index)
    THEN Error("OverflowError")
    ELSE [kind |-> "bytes",
          b |-> (IF self.kind = "priv" THEN PrivVbytes ELSE PubVbytes)
                \o ToBytes(self.depth, 1) \o self.parent_fingerprint
                \o IndexToBytes(self.index) \o self.c \o keydat(self)]

\* b58enc(bytes(node), True): the text form of a node
NodeStr(self) ==
    LET b == NodeBytes(self)
    IN  IF IsError(b) THEN b ELSE [kind |-> "str", s |-> b58enc(b.b)]

\* node_from_str, after b58dec: the fields of the payload b
node_from_bytes(b) ==
    LET c == PySlice(b, -65, -33)
        Kbytes == PyTail(b, -33)
    IN  IF Len(b) < 5 THEN Error("IndexError")
        ELSE
        LET depth == b[5]
            fingerp == PySlice(b, 5, 9)
            index == IndexFromBytes(PySlice(b, 9, 13))
        IN  IF PySlice(b, 0, 4) = PrivVbytes
            THEN IF Kbytes[1] # 0 THEN Error("AssertionError")
                 ELSE BIP32Node("priv", FromBytes(Kbytes), c, depth,
                                fingerp, index)
            ELSE IF PySlice(b, 0, 4) = PubVbytes
            THEN LET P == PointFromBytes(Kbytes)
                 IN  IF IsError(P) THEN P
                     ELSE BIP32Node("pub", P.K, c, depth, fingerp, index)
            ELSE None

node_from_str(s) ==
    LET b == b58dec(s)
    IN  IF IsError(b) THEN b ELSE node_from_bytes(b.b)

\* str.split('/') on a sequence of characters
RECURSIVE Split(_)
Split(s) ==
    IF \A j \in 1..Len(s) : s[j] # "/" THEN <<s>>
    ELSE LET j == CHOOSE q \in 1..Len(s) :
                      s[q] = "/" /\ \A r \in 1..(q - 1) : s[r] # "/"
         IN  <<SubSeq(s, 1, j - 1)>> \o Split(SubSeq(s, j + 1, Len(s)))

\* int(x) on a sequence of characters: the value as limbs, or ValueError
Digits == <<"0", "1", "2", "3", "4", "5", "6", "7", "8", "9">>
IsDigit(ch) == \E d \in 1..10 : Digits[d] = ch
DigitVal(ch) == (CHOOSE d \in 1..10 : Digits[d] = ch) - 1
RECURSIVE IntLimbs(_)
IntLimbs(x) ==
    IF x = <<>> THEN <<0, 0>>
    ELSE LET v == IntLimbs(SubSeq(x, 1, Len(x) - 1))
             lo == v[2] * 10 + DigitVal(x[Len(x)])
         IN  <<v[1] * 10 + (lo \div 65536), lo % 65536>>
int(x) ==
    IF x = <<>> \/ \E j \in 1..Len(x) : ~IsDigit(x[j]) THEN Error("ValueError")
    ELSE [kind |-> "int", v |-> IntLimbs(x)]

\* the index of a path component with the suffix H dropped and nothing
\* added (the bug C9 excludes)
PathIndex_suffix_ignored(x) ==
    IF x = <<>> THEN Error("IndexError")
    ELSE IF x[Len(x)] # "H" THEN int(x)
    ELSE int(SubSeq(x, 1, Len(x) - 1))

\* XPubKey.derive, line 69: the index a path component stands for
PathIndex(x) ==
    IF x = <<>> THEN Error("IndexError")
    ELSE IF x[Len(x)] # "H" THEN int(x)
    ELSE LET n == int(SubSeq(x, 1, Len(x) - 1))
         IN  IF IsError(n) THEN n
             ELSE [kind |-> "int", v |-> AddHardenedOffset(n.v)]

\* XPubKey.derive, the loop: key after the components xs, with the number
\* of ckd calls that returned
RECURSIVE DeriveLoop(_, _, _)
DeriveLoop(key, xs, applied) ==
    IF xs = <<>> THEN [res |-> key, applied |-> applied]
    ELSE LET x == PathIndex(Head(xs))
         IN  IF IsError(x) THEN [res |-> x, applied |-> applied]
             ELSE LET child == ckd(key, x.v)
                  IN  IF IsError(child)
                      THEN [res |-> child, applied |-> applied]
                      ELSE DeriveLoop(child, Tail(xs), applied + 1)

derive(self, path) == DeriveLoop(self, Split(path), 0)

---------------------------------------------------------------------------
(* Inputs of the key-tree operations.                                      *)

\* seeds: 16 bytes s, s+1, ...; seed 0 is 000102030405060708090a0b0c0d0e0f
Seeds == {[j \in 1..16 |-> (j - 1 + 16 * s) % 256] : s \in 0..MaxSeed}

\* child indices: 0, 0x7FFFFFFF, 0x80000000, 0xFFFFFFFF, and 2^32
NonHardenedInputs == {Idx(0, 0), Idx(32767, 65535)}
HardenedInputs == {Idx(32768, 0), Idx(65535, 65535)}
IndexInputs == NonHardenedInputs \cup HardenedInputs \cup {Idx(65536, 0)}

\* path components: an integer (0 or 2^31 - 1) with or without the suffix H
Components == [n : {Idx(0, 0), Idx(32767, 65535)}, h : BOOLEAN]
ComponentSeqs ==
    UNION {[1..len -> Components] : len \in 1..MaxPathLen}

\* the decimal digits of an integer given as limbs
RECURSIVE Decimal(_)
Decimal(n) ==
    IF n[1] = 0 /\ n[2] < 10 THEN <<Digits[n[2] + 1]>>
    ELSE LET t == (n[1] % 10) * 65536 + n[2]
         IN  Decimal(<<n[1] \div 10, t \div 10>>) \o <<Digits[(t % 10) + 1]>>

\* the path string of a sequence of components: "0/44H/..."
RECURSIVE Render(_)
Render(cs) ==
    LET c == cs[Len(cs)]
        x == Decimal(c.n) \o (IF c.h THEN <<"H">> ELSE <<>>)
    IN  IF Len(cs) = 1 THEN x
        ELSE Render(SubSeq(cs, 1, Len(cs) - 1)) \o <<"/">> \o x

\* paths that are not sequences of components: "", "H", "0//0", "0H0", "0/"
RawPaths ==
    {<<>>, <<"H">>, <<"0", "/", "/", "0">>, <<"0", "H", "0">>, <<"0", "/">>}

PathInputs ==
    {[wf |-> TRUE, comps |-> cs, path |-> Render(cs)] : cs \in ComponentSeqs}
    \cup {[wf |-> FALSE, comps |-> <<>>, path |-> raw] : raw \in RawPaths}

\* texts handed to node_from_str, made from the payload b of a node
ParseVariants == {"own", "long", "short", "badversion", "empty", "corrupt"}
VariantText(b, v) ==
    CASE v = "own" -> b58enc(b)
      [] v = "long" -> b58enc(Append(b, 0))
      [] v = "short" -> b58enc(SubSeq(b, 1, Len(b) - 1))
      [] v = "badversion" -> b58enc(Zeros(4) \o PyTail(b, 4))
      [] v = "empty" -> b58enc(<<>>)
      [] v = "corrupt" ->
            LET t == b58enc(b)
            IN  [t EXCEPT ![Len(t)] = (t[Len(t)] + 1) % 256]

---------------------------------------------------------------------------
(* The key tree as a state machine: a caller holding one node.             *)

KeepIfNode(r) == IF IsNode(r) THEN r ELSE node

\* A run is one script: it goes on while each call returns the node the
\* caller then holds, and ends at the first call that raises or whose
\* result the caller does not keep.
Running == IsNode(node) /\ res = node

TreeIdle ==
    /\ node = None /\ op = "init" /\ parent = None /\ arg = <<>> /\ res = None
MnemonicIdle ==
    /\ wl = 0 /\ mnemonic = <<>> /\ ent = <<>> /\ edits = 0
    /\ mop = "init" /\ mres = None

Init == salt \in 0..MaxSalt /\ TreeIdle /\ MnemonicIdle

\* node = PrivBIP32Node.from_entropy(seed)
FromEntropyStep(seed) ==
    /\ op = "init"
    /\ res' = XPrivKey_from_entropy(seed)
    /\ node' = KeepIfNode(res')
    /\ op' = "from_entropy" /\ parent' = None /\ arg' = seed
    /\ UNCHANGED <<salt, mnVars>>

\* node = node.ckd(i)
CkdStep(i, cap) ==
    /\ Running /\ node.depth < cap
    /\ res' = ckd(node, i)
    /\ node' = KeepIfNode(res')
    /\ op' = "ckd" /\ parent' = node /\ arg' = i
    /\ UNCHANGED <<salt, mnVars>>

\* node = node.to_pub()
ToPubStep ==
    /\ Running /\ node.kind = "priv"
    /\ res' = to_pub(node)
    /\ node' = res'
    /\ op' = "to_pub" /\ parent' = node /\ arg' = <<>>
    /\ UNCHANGED <<salt, mnVars>>

\* node = node.derive(path)
DeriveStep(p) ==
    /\ Running /\ node.depth + MaxPathLen <= MaxDepth
    /\ LET r == derive(node, p.path)
       IN  /\ res' = r.res
           /\ arg' = [wf |-> p.wf, comps |-> p.comps, path |-> p.path,
                      applied |-> r.applied]
    /\ node' = KeepIfNode(res')
    /\ op' = "derive" /\ parent' = node
    /\ UNCHANGED <<salt, mnVars>>

\* node_from_str(s) for a text s made from str(node); the caller keeps the
\* result of parsing the node's own text
ParseStep(v) ==
    /\ Running
    /\ LET b == NodeBytes(node)
       IN  IF IsError(b)
           THEN /\ res' = b
                /\ arg' = [variant |-> v, s |-> <<>>, serialized |-> FALSE]
           ELSE LET s == VariantText(b.b, v)
                IN  /\ res' = node_from_str(s)
                    /\ arg' = [variant |-> v, s |-> s, serialized |-> TRUE]
    /\ node' = IF v = "own" THEN KeepIfNode(res') ELSE node
    /\ op' = "parse" /\ parent' = node
    /\ UNCHANGED <<salt, mnVars>>

Next ==
    \/ \E seed \in Seeds : FromEntropyStep(seed)
    \/ \E i \in IndexInputs : CkdStep(i, MaxDepth)
    \/ ToPubStep
    \/ \E p \in PathInputs : DeriveStep(p)
    \/ \E v \in ParseVariants : ParseStep(v)

Spec == Init /\ [][Next]_vars

\* the same machine walking one branch down to depth DeepCap
DeepIndexInputs == {Idx(0, 0)}
NextDeep ==
    \/ \E seed \in Seeds : FromEntropyStep(seed)
    \/ \E i \in DeepIndexInputs : CkdStep(i, DeepCap)
    \/ ToPubStep
    \/ ParseStep("own")

SpecDeep == Init /\ [][NextDeep]_vars

---------------------------------------------------------------------------
(* Claims about the key tree.                                              *)

\* C1: Public/private consistency.  For the private node held (a master or
\* any node derived from one) and every non-hardened index i,
\* p.ckd(i).to_pub() and p.to_pub().ckd(i) are the same node: same class,
\* point, chain code, depth, parent fingerprint and child index.
C1_PubPrivConsistency ==
    (IsNode(node) /\ node.kind = "priv") =>
        \A i \in NonHardenedInputs :
            /\ IsNode(ckd(node, i))
            /\ to_pub(ckd(node, i)) = ckd(to_pub(node), i)

\* a derived private node was itself derived without hardening, and its
\* public counterpart is the child of its parent's public counterpart
C1_Witness ==
    /\ op = "ckd" /\ parent.kind = "priv" /\ parent.depth > 0
    /\ ~IsHardened(arg) /\ IsNode(res)
    /\ to_pub(res) = ckd(to_pub(parent), arg)

\* C2: Hardened derivation only from private material.  On a public node
\* ckd(i) with i >= 0x80000000 raises the assertion error of XPubKey.ckd and
\* the caller gets no child; on a private node the same call (i a 32-bit
\* index) returns a private child.
C2_HardenedOnlyFromPrivate ==
    /\ IsNode(node) =>
          \A i \in HardenedInputs \cup {Idx(65536, 0)} :
              IF node.kind = "pub"
              THEN ckd(node, i) = Error("AssertionError")
              ELSE IndexFits(i) =>
                      /\ ckd(node, i).kind = "priv"
                      /\ ckd(node, i).index = i
    /\ (op = "ckd" /\ parent.kind = "pub" /\ IsHardened(arg)) =>
          (res = Error("AssertionError") /\ node = parent)

\* a hardened child was asked of a public node that was itself derived
C2_Witness ==
    /\ op = "ckd" /\ parent.kind = "pub" /\ parent.depth > 0
    /\ arg \in HardenedInputs /\ IsError(res)

\* the left half IL of the HMAC that ckd computes for child i of self
ckd_IL(self, i) ==
    LET plbe == IF self.kind = "priv" /\ IsHardened(i) THEN keydat(self)
                ELSE PointBytes(K(self))
    IN  FromBytes(PySlice(HmacSha512(self.c, plbe \o IndexToBytes(i)), 0, 32))

\* C3: Child derivation fails with InvalidDerivation, returning no node,
\* when IL >= N or the child key is degenerate (scalar 0, or the point at
\* infinity); so no node returned by ckd holds scalar 0 or the point at
\* infinity.
C3_InvalidDerivationRejected ==
    (op = "ckd" /\ IndexFits(arg)
        /\ (parent.kind = "pub" => ~IsHardened(arg))) =>
        LET IL == ckd_IL(parent, arg)
            degenerate ==
                IF parent.kind = "priv" THEN (IL + parent.kdat) % N = 0
                ELSE PointAdd(PointMul(IL), parent.kdat) = Infinity
        IN  /\ (IL >= N \/ degenerate) => res = Error("InvalidDerivation")
            /\ IsNode(res) => res.kdat # 0

\* C4: Serialization round trip.  Parsing the text of the node held gives
\* a node of the same class with the same key material, chain code, depth,
\* parent fingerprint and child index.
C4_SerializationRoundTrip ==
    /\ IsNode(node) =>
          /\ ~IsError(NodeStr(node))
          /\ node_from_str(NodeStr(node).s) = node
    /\ (op = "parse" /\ arg.variant = "own") => res = parent

\* C5: Parsing rejects malformed input with a typed failure and returns
\* nothing but a complete node: InvalidSerialization when the decoded
\* payload is not 78 bytes, UnknownVersion when the version prefix is
\* neither constant.
C5_ParseRejectsMalformed ==
    (op = "parse" /\ arg.serialized /\ ~IsError(b58dec(arg.s))) =>
        LET b == b58dec(arg.s).b
        IN  /\ Len(b) # 78 => res = Error("InvalidSerialization")
            /\ (Len(b) = 78 /\ PySlice(b, 0, 4) \notin {PrivVbytes, PubVbytes})
                  => res = Error("UnknownVersion")
            /\ IsNode(res) \/ IsError(res)

\* C7: Depth invariant.  Every node reached from a master has depth in
\* 0..255, and a derivation from depth 255 is rejected instead of yielding
\* a node.
C7_DepthInvariant ==
    /\ IsNode(node) => node.depth \in 0..255
    /\ (op = "ckd" /\ parent.depth >= 255) => IsError(res)

\* the index of a path component: its integer, plus 0x80000000 when suffixed
ComponentIndex(c) == IF c.h THEN <<c.n[1] + 32768, c.n[2]>> ELSE c.n

\* n.ckd(i1).ckd(i2)...ckd(ik), stopping at the first call that fails
RECURSIVE FoldCkd(_, _, _)
FoldCkd(n, cs, applied) ==
    IF cs = <<>> THEN [res |-> n, applied |-> applied]
    ELSE LET child == ckd(n, ComponentIndex(Head(cs)))
         IN  IF IsError(child) THEN [res |-> child, applied |-> applied]
             ELSE FoldCkd(child, Tail(cs), applied + 1)

\* C9: Path derivation is the left-to-right fold of ckd over the path's
\* components, the index of a component being its integer plus 0x80000000
\* when it carries the suffix H; the result has depth n.depth + k and the
\* last index; on a public node the derivation fails at the first hardened
\* component, after exactly the components before it, and returns no node.
C9_DeriveIsFold ==
    (op = "derive" /\ arg.wf) =>
        LET cs == arg.comps
            k == Len(cs)
            f == FoldCkd(parent, cs, 0)
            hard == {j \in 1..k : IsHardened(ComponentIndex(cs[j]))}
        IN  /\ res = f.res
            /\ arg.applied = f.applied
            /\ IsNode(res) =>
                  /\ res.depth = parent.depth + k
                  /\ res.index = ComponentIndex(cs[k])
                  /\ res.kind = parent.kind
            /\ (parent.kind = "pub" /\ hard # {}) =>
                  /\ res = Error("AssertionError")
                  /\ \A j \in hard : arg.applied < j
                  /\ arg.applied + 1 \in hard
                  /\ node = parent

\* a two-component path whose first component is hardened was derived from
\* a private node
C9_Witness ==
    /\ op = "derive" /\ arg.wf /\ Len(arg.comps) = 2
    /\ arg.comps[1].h /\ ~arg.comps[2].h /\ parent.kind = "priv"
    /\ IsNode(res) /\ res.depth = parent.depth + 2

---------------------------------------------------------------------------
(* src/mnemonic.py: BIP39 mnemonics.  A word is a number: the words of a   *)
(* list are 0..2047 in the order the list gives them, and AbsentWord is in *)
(* no list.                                                                *)

WordBits == 11
WordListSize == 2 ^ WordBits
AbsentWord == WordListSize

\* WordList: the tuple of the words of list v; position x (0-based) holds
\* word (x * (2v + 1) + 7v) mod 2048, so that every word occurs once
WordLists ==
    [v \in 0..MaxWordList |->
        <<>> \o [x1 \in 1..WordListSize |->
                    ((x1 - 1) * (2 * v + 1) + 7 * v) % WordListSize]]
\* wl[x]
WordAt(v, x) == WordLists[v][x + 1]
\* tuple.index for every word: the first position holding it, -1 when the
\* word is not in the list (where tuple.index raises ValueError)
WordIndexTable ==
    [v \in 0..MaxWordList |->
        <<>> \o [w1 \in 1..(WordListSize + 1) |->
                    IF \E x1 \in 1..WordListSize : WordLists[v][x1] = w1 - 1
                    THEN (CHOOSE x1 \in 1..WordListSize :
                              /\ WordLists[v][x1] = w1 - 1
                              /\ \A y1 \in 1..(x1 - 1) :
                                     WordLists[v][y1] # w1 - 1) - 1
                    ELSE -1]]
WordIndex(v, w) == WordIndexTable[v][w + 1]

\* util.convertbits(data, frombits, tobits): the bits of data, frombits per
\* element and most significant first, regrouped tobits at a time; a final
\* partial group is filled with zero bits
BitAt(data, frombits, p) ==
    IF p >= Len(data) * frombits THEN 0
    ELSE (data[(p \div frombits) + 1]
            \div (2 ^ (frombits - 1 - (p % frombits)))) % 2
RECURSIVE GroupValue(_, _, _, _)
GroupValue(data, frombits, p, n) ==
    IF n = 0 THEN 0
    ELSE 2 * GroupValue(data, frombits, p, n - 1)
         + BitAt(data, frombits, p + n - 1)
convertbits(data, frombits, tobits) ==
    LET nbits == Len(data) * frombits
        ngroups == (nbits + tobits - 1) \div tobits
    IN  <<>> \o [g \in 1..ngroups |->
                    GroupValue(data, frombits, (g - 1) * tobits, tobits)]

\* hashlib.sha256(msg).digest(): 32 bytes
sha256(msg) ==
    LET h == Mix(msg, salt + 3)
    IN  [j \in 1..32 |-> (h * (2 * j + 1) + j * j) % 256]

\* from_entropy taking the checksum from the end of the hash instead of
\* its start (the bug C6 excludes)
Mnemonic_from_entropy_last_bits(e, v) ==
    LET ENT == Len(e) * 8
    IN  IF ~(Len(e) % 4 = 0 /\ Len(e) >= 16 /\ Len(e) <= 32)
        THEN Error("AssertionError")
        ELSE LET chk == PyTail(convertbits(sha256(e), 8, 1), -(ENT \div 32))
                 l == convertbits(convertbits(e, 8, 1) \o chk, 1, 11)
             IN  [kind |-> "mnemonic",
                  words |-> [j \in 1..Len(l) |-> WordAt(v, l[j])]]

\* Mnemonic.from_entropy(ent, wl)
Mnemonic_from_entropy(e, v) ==
    LET ENT == Len(e) * 8
    IN  IF ~(Len(e) % 4 = 0 /\ Len(e) >= 16 /\ Len(e) <= 32)
        THEN Error("AssertionError")
        ELSE LET hash_ == sha256(e)
                 chk == PySlice(convertbits(hash_, 8, 1), 0, ENT \div 32)
                 entbits == convertbits(e, 8, 1)
                 full == entbits \o chk
                 l == convertbits(full, 1, 11)
             IN  [kind |-> "mnemonic",
                  words |-> [j \in 1..Len(l) |-> WordAt(v, l[j])]]

\* the checksum comparison of check(), for words that are all in the list
ChecksumMatches(self, v) ==
    LET l == [j \in 1..Len(self) |-> WordIndex(v, self[j])]
        fullbits == convertbits(l, 11, 1)
        ENT == (32 * Len(fullbits)) \div 33
        csbits == PyTail(fullbits, ENT)
        hash_ == sha256(convertbits(PySlice(fullbits, 0, ENT), 1, 8))
    IN  PySlice(convertbits(hash_, 8, 1), 0, Len(csbits)) = csbits

\* check() looking the words up before it tests the length (the bug C8
\* excludes)
Mnemonic_check_lookup_first(self, v) ==
    IF \E j \in 1..Len(self) : WordIndex(v, self[j]) = -1
    THEN Error("ValueError")
    ELSE IF Len(self) % 3 > 0 THEN [kind |-> "bool", v |-> FALSE]
    ELSE [kind |-> "bool", v |-> ChecksumMatches(self, v)]

\* check() without its length test (the bug C10, as amended, excludes)
Mnemonic_check_any_length(self, v) ==
    IF \E j \in 1..Len(self) : WordIndex(v, self[j]) = -1
    THEN Error("ValueError")
    ELSE [kind |-> "bool", v |-> ChecksumMatches(self, v)]

\* Mnemonic.check(wl)
Mnemonic_check(self, v) ==
    IF Len(self) % 3 > 0 THEN [kind |-> "bool", v |-> FALSE]
    ELSE IF \E j \in 1..Len(self) : WordIndex(v, self[j]) = -1
    THEN Error("ValueError")
    ELSE LET l == [j \in 1..Len(self) |-> WordIndex(v, self[j])]
             fullbits == convertbits(l, 11, 1)
             ENT == (32 * Len(fullbits)) \div 33
             plbits == PySlice(fullbits, 0, ENT)
             csbits == PyTail(fullbits, ENT)
             plbytes == convertbits(plbits, 1, 8)
             hash_ == sha256(plbytes)
         IN  [kind |-> "bool",
              v |-> PySlice(convertbits(hash_, 8, 1), 0, Len(csbits)) = csbits]

---------------------------------------------------------------------------
(* Mnemonics as a state machine: a caller holding one Mnemonic.            *)

\* entropy: len bytes, byte j being (29 * p * (j + 5)) mod 256; pattern 0
\* is all zeros
EntropyLengths == {16, 20, 24, 28, 32}
BadEntropyLengths == {12, 17, 36}
Entropies ==
    {[j \in 1..len |-> (29 * p * (j + 5)) % 256] :
        len \in EntropyLengths \cup BadEntropyLengths, p \in 0..MaxPattern}

\* tuples given to Mnemonic(...) directly; a, b are the first two words
NewInputs(v) ==
    LET a == WordAt(v, 0)
        b == WordAt(v, 1)
    IN  {<<>>, <<a>>, <<a, a, a>>, <<a, a, b>>, <<a, AbsentWord, a>>,
         <<AbsentWord, a>>}
EditWords(v) == {WordAt(v, 0), WordAt(v, 1), AbsentWord}

InitMnemonic ==
    /\ salt \in 0..MaxSalt /\ TreeIdle
    /\ wl \in 0..MaxWordList
    /\ mnemonic = <<>> /\ ent = <<>> /\ edits = 0
    /\ mop = "init" /\ mres = None

\* A run is one script: it makes a Mnemonic, may rebuild it with a word
\* replaced or dropped, and ends with check() or with a call that raises.
Held == mop \in {"from_entropy", "new"} /\ ~IsError(mres)

\* mnemonic = Mnemonic.from_entropy(e, wl)
MnFromEntropyStep(e) ==
    /\ mop = "init"
    /\ mres' = Mnemonic_from_entropy(e, wl)
    /\ mop' = "from_entropy"
    /\ IF IsError(mres')
       THEN UNCHANGED <<mnemonic, ent, edits>>
       ELSE mnemonic' = mres'.words /\ ent' = e /\ edits' = 0
    /\ UNCHANGED <<salt, wl, treeVars>>

\* mnemonic = Mnemonic(words)
MnNewStep(words) ==
    /\ mop = "init"
    /\ mnemonic' = words /\ ent' = <<>> /\ edits' = 0
    /\ mop' = "new" /\ mres' = None
    /\ UNCHANGED <<salt, wl, treeVars>>

\* mnemonic = Mnemonic(the words with one of them replaced)
MnReplaceStep(pos, w) ==
    /\ Held /\ edits < MaxEdits /\ pos \in 1..Len(mnemonic)
    /\ mnemonic' = [mnemonic EXCEPT ![pos] = w]
    /\ edits' = edits + 1
    /\ mop' = "new" /\ mres' = None
    /\ UNCHANGED <<salt, wl, ent, treeVars>>

\* mnemonic = Mnemonic(mnemonic[:-1])
MnDropStep ==
    /\ Held /\ edits < MaxEdits /\ Len(mnemonic) > 0
    /\ mnemonic' = PySlice(mnemonic, 0, -1)
    /\ edits' = edits + 1
    /\ mop' = "new" /\ mres' = None
    /\ UNCHANGED <<salt, wl, ent, treeVars>>

\* mnemonic.check(wl)
MnCheckStep ==
    /\ Held
    /\ mres' = Mnemonic_check(mnemonic, wl)
    /\ mop' = "check"
    /\ UNCHANGED <<salt, wl, mnemonic, ent, edits, treeVars>>

NextMnemonic ==
    \/ \E e \in Entropies : MnFromEntropyStep(e)
    \/ \E words \in NewInputs(wl) : MnNewStep(words)
    \/ \E pos \in {1, Len(mnemonic)}, w \in EditWords(wl) :
           MnReplaceStep(pos, w)
    \/ MnDropStep
    \/ MnCheckStep

SpecMnemonic == InitMnemonic /\ [][NextMnemonic]_vars

---------------------------------------------------------------------------
(* Claims about mnemonics.                                                 *)

True == [kind |-> "bool", v |-> TRUE]
False == [kind |-> "bool", v |-> FALSE]
Generated == ent # <<>> /\ edits = 0

\* C6: Mnemonic round trip.  A mnemonic made by from_entropy from 16, 20,
\* 24, 28 or 32 bytes, with a list of 2048 unique words, has
\* (ENT + ENT/32) / 11 words (12, 15, 18, 21 or 24), and check with the same
\* list returns true.
C6_MnemonicRoundTrip ==
    /\ (mop = "from_entropy" /\ ~IsError(mres)) =>
          LET ENT == 8 * Len(ent)
          IN  /\ Len(ent) \in EntropyLengths
              /\ Len(mnemonic) = (ENT + ENT \div 32) \div 11
              /\ Len(mnemonic) \in {12, 15, 18, 21, 24}
              /\ Mnemonic_check(mnemonic, wl) = True
    /\ (mop = "check" /\ Generated) => mres = True

\* a 24-word mnemonic made from 32 bytes that are not all zero was checked
C6_Witness ==
    /\ mop = "check" /\ Generated /\ Len(ent) = 32 /\ Len(mnemonic) = 24
    /\ \E j \in 1..32 : ent[j] # 0
    /\ mres = True

\* C8: check() raises only for a word absent from the list.  With a word
\* count that is not a multiple of 3 it returns false whatever the words;
\* with a multiple of 3 and every word in the list it returns true or
\* false; it raises (ValueError from tuple.index) exactly when the count is
\* a multiple of 3 and some word is absent.
C8_CheckRaisesOnlyForAbsentWord ==
    mop = "check" =>
        LET absent == \E j \in 1..Len(mnemonic) :
                          \A x \in 0..(WordListSize - 1) :
                              WordAt(wl, x) # mnemonic[j]
        IN  /\ Len(mnemonic) % 3 # 0 => mres = False
            /\ (Len(mnemonic) % 3 = 0 /\ ~absent) => mres \in {True, False}
            /\ (Len(mnemonic) % 3 = 0 /\ absent) => mres = Error("ValueError")

\* a mnemonic of two words, one of them in no list, was checked
C8_Witness ==
    /\ mop = "check" /\ Len(mnemonic) % 3 # 0
    /\ \E j \in 1..Len(mnemonic) : mnemonic[j] = AbsentWord
    /\ mres = False

\* C10 as claimed: check() returns true only for 12, 15, 18, 21 or 24 words.
C10_OnlyGeneratedLengths ==
    (mop = "check" /\ mres = True) => Len(mnemonic) \in {12, 15, 18, 21, 24}

\* C10 as amended: check() returns true only for a word count that is a
\* multiple of 3 (0 and 3 included) with every word in the list; for any
\* other count it returns false.
C10_OnlyMultiplesOfThree ==
    mop = "check" =>
        /\ mres = True =>
              /\ Len(mnemonic) % 3 = 0
              /\ \A j \in 1..Len(mnemonic) : WordIndex(wl, mnemonic[j]) >= 0
        /\ Len(mnemonic) % 3 # 0 => mres = False

\* check() returned true for a mnemonic of three words
C10_Witness ==
    mop = "check" /\ mres = True /\ Len(mnemonic) = 3

====
